---- MODULE Spec2Model ----
(***************************************************************************)
(* stream-lines: `Lines`, a Stream transformer that turns a stream of byte *)
(* chunks into a stream of lines delimited by LF and optionally CRLF       *)
(* (src/src/lib.rs).                                                       *)
(*                                                                         *)
(* A byte is a number 0..255.  Option<T> is a sequence of length at most   *)
(* one: None is << >> and Some(x) is << x >>.  A Result handed back by a   *)
(* pull is a record [tag, val]: tag "line" (Ok), "decode_err" (the Err of  *)
(* `into`, a FromUtf8Error, which carries the bytes) or "src_err" (an Err  *)
(* of the inner stream).                                                   *)
(***************************************************************************)
EXTENDS Integers, Sequences, FiniteSets

VARIABLES
    buffered,     \* Lines.buffered : Option<Vec<u8>>
    done,         \* Lines.stream : Fuse<S>, the fuse's `done` flag
    srcEnded,     \* the inner stream S has returned Ready(None)
    received,     \* history: all bytes the inner stream delivered, concatenated
    nchunks,      \* history: how many chunks the inner stream delivered
    chunk,        \* the chunk handed over in the latest pull that got one
    polled,       \* what self.stream.poll() gave the latest pull
    innerPolled,  \* whether the latest pull reached the inner stream S
    last,         \* what the latest pull returned
    out,          \* history: every item or error pulls returned, in order
    first,        \* summary of an earlier, completed splitter over the same bytes
    wake          \* the inner stream's notification of the pulling task:
                  \* "armed" by a pull it answered NotReady, then "fired"

vars == << buffered, done, srcEnded, received, nchunks, chunk, polled,
           innerPolled, last, out, first, wake >>

\* ---------------------------------------------------------------- bounds
MaxBytes == 4
MaxChunks == 3
MaxSrcErrs == 1
\* longest byte string a second splitter is run over
MaxRechunkBytes == 3

\* ---------------------------------------------------------------- bytes
LF == 10
CR == 13
\* 'a' and 0xFF: an ordinary byte, and a byte no UTF-8 text contains
Byte == {LF, CR, 97, 255}

None == << >>
Some(x) == << x >>

Chunks(maxlen) == UNION { [1..n -> Byte] : n \in 0..maxlen }

\* ------------------------------------------------------- pure functions
\* String::from_utf8, the `into` that `strings` binds.  Over Byte no
\* multi-byte sequence can form: bytes below 0x80 are valid alone and 0xFF
\* is valid nowhere.
FromUtf8(bytes) ==
    IF \A i \in 1..Len(bytes) : bytes[i] < 128
    THEN [tag |-> "line", val |-> bytes]
    ELSE [tag |-> "decode_err", val |-> bytes]

Into(line) == FromUtf8(line)

\* position of the first LF of s, 0 when there is none
FirstLF(s) ==
    IF \E i \in 1..Len(s) : s[i] = LF
    THEN CHOOSE i \in 1..Len(s) : s[i] = LF /\ \A j \in 1..(i-1) : s[j] # LF
    ELSE 0

\* position of the last LF of s, 0 when there is none
LastLF(s) ==
    IF \E i \in 1..Len(s) : s[i] = LF
    THEN CHOOSE i \in 1..Len(s) : s[i] = LF /\ \A j \in (i+1)..Len(s) : s[j] # LF
    ELSE 0

CutAtSkip(buffer, i) ==
    IF i = 0 THEN << buffer >>
    ELSE << SubSeq(buffer, 1, i-1), SubSeq(buffer, i+2, Len(buffer)) >>

CutAt(buffer, i) ==
    IF i = 0 THEN << buffer >>
    ELSE << SubSeq(buffer, 1, i-1), SubSeq(buffer, i+1, Len(buffer)) >>

SplitN2Last(buffer) == CutAt(buffer, LastLF(buffer))

\* buffer.splitn(2, |c| *c == LF): one slice when there is no LF, otherwise
\* the bytes before the first LF and the bytes after it
SplitN2(buffer) == CutAt(buffer, FirstLF(buffer))

RECURSIVE PopAllCR(_)
PopAllCR(line) ==
    IF Len(line) > 0 /\ line[Len(line)] = CR
    THEN PopAllCR(SubSeq(line, 1, Len(line)-1))
    ELSE line

\* if let Some(&CR) = line.last() { line.pop(); }
PopCR(line) ==
    IF Len(line) > 0 /\ line[Len(line)] = CR
    THEN SubSeq(line, 1, Len(line)-1)
    ELSE line

ExtendPrepend(buf, c) ==
    IF buf # None THEN Some(c \o buf[1]) ELSE Some(c)

ExtendReplace(buf, c) == Some(c)

\* poll, the Ready(Some(chunk)) arm: extend the buffer, or start it
Extend(buf, c) ==
    IF buf # None THEN Some(buf[1] \o c) ELSE Some(c)

LinesNextRetryOnErr(buf, flush) ==
    IF buf # None
    THEN LET split == SplitN2(buf[1])
             line == PopCR(split[1])
             keep == IF Into(line).tag = "decode_err" THEN buf ELSE None
         IN  IF Len(split) = 2
             THEN [buffered |-> IF keep = None THEN Some(split[2]) ELSE keep,
                   ret |-> Some(Into(line))]
             ELSE IF flush
             THEN [buffered |-> keep, ret |-> Some(Into(line))]
             ELSE [buffered |-> buf, ret |-> None]
    ELSE [buffered |-> buf, ret |-> None]

LinesNextKeepPopped(buf, flush) ==
    IF buf # None
    THEN LET split == SplitN2(buf[1])
             line == PopCR(split[1])
         IN  IF Len(split) = 2
             THEN [buffered |-> Some(split[2]), ret |-> Some(Into(line))]
             ELSE IF flush
             THEN [buffered |-> None, ret |-> Some(Into(line))]
             ELSE [buffered |-> Some(line), ret |-> None]
    ELSE [buffered |-> buf, ret |-> None]

LinesNextStoreHead(buf, flush) ==
    IF buf # None
    THEN LET split == SplitN2(buf[1])
             line == PopCR(split[1])
         IN  IF Len(split) = 2
             THEN [buffered |-> Some(split[1]), ret |-> Some(Into(line))]
             ELSE IF flush
             THEN [buffered |-> None, ret |-> Some(Into(line))]
             ELSE [buffered |-> buf, ret |-> None]
    ELSE [buffered |-> buf, ret |-> None]

LinesNextNoneAsEmpty(buf, flush) ==
    LET b == IF buf = None THEN << >> ELSE buf[1]
        split == SplitN2(b)
        line == PopCR(split[1])
    IN  IF Len(split) = 2
        THEN [buffered |-> Some(split[2]), ret |-> Some(Into(line))]
        ELSE IF flush
        THEN [buffered |-> None, ret |-> Some(Into(line))]
        ELSE [buffered |-> buf, ret |-> None]

LinesNextSkipEmpty(buf, flush) ==
    IF buf # None
    THEN LET split == SplitN2(buf[1])
             line == PopCR(split[1])
         IN  IF Len(split) = 2
             THEN [buffered |-> Some(split[2]), ret |-> Some(Into(line))]
             ELSE IF flush /\ line # << >>
             THEN [buffered |-> None, ret |-> Some(Into(line))]
             ELSE [buffered |-> buf, ret |-> None]
    ELSE [buffered |-> buf, ret |-> None]

\* Lines::next(flush): the buffer it leaves and the Option<Result> it returns
LinesNext(buf, flush) ==
    IF buf # None
    THEN LET split == SplitN2(buf[1])
             line == PopCR(split[1])
         IN  IF Len(split) = 2
             THEN [buffered |-> Some(split[2]), ret |-> Some(Into(line))]
             ELSE IF flush
             THEN [buffered |-> None, ret |-> Some(Into(line))]
             ELSE [buffered |-> buf, ret |-> None]
    ELSE [buffered |-> buf, ret |-> None]

FuseNoLatch(d, r) == d

FuseLatchOnErr(d, r) == d \/ r = "err"

\* Fuse::poll: the flag after the inner stream returned r
FuseLatch(d, r) == d \/ r = "end"

ReturnedNotReady(ret, whenNone) ==
    IF ret = None THEN "not_ready"
    ELSE IF ret[1].tag = "line" THEN "line" ELSE "err"

\* poll's match on what next returned
Returned(ret, whenNone) ==
    IF ret = None THEN whenNone
    ELSE IF ret[1].tag = "line" THEN "line" ELSE "err"

SrcErr == [tag |-> "src_err", val |-> << >>]

SrcErrs(o) == Cardinality({ i \in 1..Len(o) : o[i].tag = "src_err" })

IsPrefix(s, t) == Len(s) <= Len(t) /\ SubSeq(t, 1, Len(s)) = s

\* ------------------------------------------------------------- the state
InitEmptyBuffer ==
    /\ buffered = Some(<< >>)
    /\ done = FALSE
    /\ srcEnded = FALSE
    /\ received = << >>
    /\ nchunks = 0
    /\ chunk = << >>
    /\ polled = "none"
    /\ innerPolled = FALSE
    /\ last = "none"
    /\ out = << >>
    /\ first = None
    /\ wake = "none"

\* Lines::new
Init ==
    /\ buffered = None
    /\ done = FALSE
    /\ srcEnded = FALSE
    /\ received = << >>
    /\ nchunks = 0
    /\ chunk = << >>
    /\ polled = "none"
    /\ innerPolled = FALSE
    /\ last = "none"
    /\ out = << >>
    /\ first = None
    /\ wake = "none"

PollNotReadyDrain ==
    /\ ~done
    /\ polled' = "not_ready"
    /\ innerPolled' = TRUE
    /\ done' = FuseLatch(done, "not_ready")
    /\ wake' = "armed"
    /\ LET n == LinesNext(buffered, FALSE)
       IN  /\ buffered' = n.buffered
           /\ out' = out \o n.ret
           /\ last' = Returned(n.ret, "not_ready")
    /\ UNCHANGED << srcEnded, received, nchunks, chunk, first >>

\* poll, inner stream not ready
PollNotReady ==
    /\ ~done
    /\ polled' = "not_ready"
    /\ innerPolled' = TRUE
    /\ done' = FuseLatch(done, "not_ready")
    /\ last' = "not_ready"
    /\ wake' = "armed"
    /\ UNCHANGED << buffered, srcEnded, received, nchunks, chunk, out, first >>

\* poll, inner stream fails: `self.stream.poll()?` returns the error at once
PollSrcErr ==
    /\ ~done
    /\ SrcErrs(out) < MaxSrcErrs
    /\ polled' = "err"
    /\ innerPolled' = TRUE
    /\ done' = FuseLatch(done, "err")
    /\ last' = "err"
    /\ out' = Append(out, SrcErr)
    /\ wake' = "none"
    /\ UNCHANGED << buffered, srcEnded, received, nchunks, chunk, first >>

\* poll, the Async::Ready(None) arm
ReadyNone ==
    LET n == LinesNext(buffered, TRUE)
    IN  /\ buffered' = n.buffered
        /\ out' = out \o n.ret
        /\ last' = Returned(n.ret, "end")

\* poll, inner stream exhausted
PollEnd ==
    /\ ~done
    /\ polled' = "end"
    /\ innerPolled' = TRUE
    /\ srcEnded' = TRUE
    /\ done' = FuseLatch(done, "end")
    /\ ReadyNone
    /\ wake' = "none"
    /\ UNCHANGED << received, nchunks, chunk, first >>

\* poll, the fuse answers Ready(None) without polling the inner stream
PollFused ==
    /\ done
    /\ polled' = "end"
    /\ innerPolled' = FALSE
    /\ ReadyNone
    /\ wake' = "none"
    /\ UNCHANGED << done, srcEnded, received, nchunks, chunk, first >>

\* poll, the Async::Ready(Some(chunk)) arm
PollChunk ==
    /\ ~done
    /\ nchunks < MaxChunks
    /\ \E c \in Chunks(MaxBytes - Len(received)) :
        /\ first # None => IsPrefix(received \o c, first[1].bytes)
        /\ polled' = "chunk"
        /\ innerPolled' = TRUE
        /\ done' = FuseLatch(done, "chunk")
        /\ received' = received \o c
        /\ nchunks' = nchunks + 1
        /\ chunk' = c
        /\ LET n == LinesNext(Extend(buffered, c), FALSE)
           IN  /\ buffered' = n.buffered
               /\ out' = out \o n.ret
               /\ last' = Returned(n.ret, "not_ready")
    /\ wake' = "none"
    /\ UNCHANGED << srcEnded, first >>

Next ==
    \/ PollNotReady
    \/ PollSrcErr
    \/ PollEnd
    \/ PollFused
    \/ PollChunk

Spec == Init /\ [][Next]_vars

\* the items and decode errors pulls returned (what extraction produced)
Extracted(o) == SelectSeq(o, LAMBDA r : r.tag # "src_err")

\* Lines::new over another stream that delivers the same bytes, cut into
\* chunks at other places
Restart ==
    /\ last = "end"
    /\ first = None
    /\ Len(received) <= MaxRechunkBytes
    /\ first' = Some([bytes |-> received, n |-> nchunks, out |-> Extracted(out)])
    /\ buffered' = None
    /\ done' = FALSE
    /\ srcEnded' = FALSE
    /\ received' = << >>
    /\ nchunks' = 0
    /\ chunk' = << >>
    /\ polled' = "none"
    /\ innerPolled' = FALSE
    /\ last' = "none"
    /\ out' = << >>
    /\ wake' = "none"

NextRechunk ==
    \/ PollNotReady
    \/ PollSrcErr
    \/ PollEnd
    \/ PollFused
    \/ PollChunk
    \/ Restart

SpecRechunk == Init /\ [][NextRechunk]_vars

\* the inner stream, ready again, notifies the task that it answered NotReady
Wake ==
    /\ wake = "armed"
    /\ wake' = "fired"
    /\ UNCHANGED << buffered, done, srcEnded, received, nchunks, chunk, polled,
                    innerPolled, last, out, first >>

\* a task run by an executor: it polls again at once after an item or an
\* error, and after NotReady only when it has been notified
CanPull == last # "not_ready" \/ wake = "fired"

NextWake ==
    \/ CanPull /\ PollNotReady
    \/ CanPull /\ PollSrcErr
    \/ CanPull /\ PollEnd
    \/ CanPull /\ PollFused
    \/ CanPull /\ PollChunk
    \/ Wake

SpecWake == Init /\ [][NextWake]_vars

\* a caller that polls in a loop until the stream ends, over an inner stream
\* that fails nowhere and, after finitely many polls, is exhausted
NextLive ==
    \/ PollNotReady
    \/ PollEnd
    \/ PollFused
    \/ PollChunk

SpecLive == Init /\ [][NextLive]_vars /\ WF_vars(PollEnd) /\ WF_vars(PollFused)

\* ----------------------------------------------------- reference notions
\* the pieces of s between its LF bytes, the piece after the last LF included
RECURSIVE SplitLF(_)
SplitLF(s) ==
    IF \E i \in 1..Len(s) : s[i] = LF
    THEN LET i == CHOOSE k \in 1..Len(s) : s[k] = LF /\ \A j \in 1..(k-1) : s[j] # LF
         IN  << SubSeq(s, 1, i-1) >> \o SplitLF(SubSeq(s, i+1, Len(s)))
    ELSE << s >>

NumLF(s) == Cardinality({ i \in 1..Len(s) : s[i] = LF })

\* p without the one CR that ends it, if one does
StripOneCR(p) ==
    IF Len(p) > 0 /\ p[Len(p)] = CR THEN SubSeq(p, 1, Len(p)-1) ELSE p

\* the lines of s: every LF-terminated piece loses the CR before its LF, the
\* piece after the last LF is taken as it is
RefLines(s) ==
    LET ps == SplitLF(s)
    IN  [k \in 1..Len(ps) |-> IF k < Len(ps) THEN StripOneCR(ps[k]) ELSE ps[k]]

Line(bytes) == [tag |-> "line", val |-> bytes]

Vals(o) == [k \in 1..Len(o) |-> o[k].val]

NoErrors == \A k \in 1..Len(out) : out[k].tag = "line"

BufBytes(b) == IF b = None THEN << >> ELSE b[1]

\* ----------------------------------------------------------------- claims

\* C1: when a splitter that received at least one chunk and met no error has
\* signalled completion, the lines it emitted are, in order, exactly the
\* pieces of the concatenation of all chunks split at LF, each LF-terminated
\* piece without the CR before its LF.
C1_LinesOfConcatenation ==
    (last = "end" /\ nchunks >= 1 /\ NoErrors) => Vals(out) = RefLines(received)

\* C2 (as stated): two splitters that completed over the same bytes, however
\* many chunks each got, produced the same sequence of lines.
C2_RechunkAny ==
    (first # None /\ last = "end" /\ received = first[1].bytes)
        => Extracted(out) = first[1].out

\* C2 (amended): two splitters that completed over the same bytes, each
\* having got at least one chunk, produced the same sequence of lines.
C2_Rechunk ==
    (first # None /\ last = "end" /\ received = first[1].bytes
        /\ nchunks >= 1 /\ first[1].n >= 1)
        => Extracted(out) = first[1].out

C2_Witness ==
    /\ first # None
    /\ last = "end"
    /\ received = first[1].bytes
    /\ received = << 97, CR, LF >>
    /\ first[1].n = 1
    /\ nchunks = 3
    /\ Extracted(out) = << Line(<< 97 >>), Line(<< >>) >>

\* C3: the k-th extracted line, for every k up to the number of LF bytes
\* received, is the k-th LF-terminated piece of the received bytes without
\* the one CR that ends it; every other CR of the piece is kept.
C3_CrlfStripping ==
    LET ex == Extracted(out)
        ps == SplitLF(received)
    IN  \A k \in 1..Len(ex) :
            k <= NumLF(received) => ex[k].val = StripOneCR(ps[k])

\* a line CR CR LF whose LF came in a chunk of its own: one CR is kept
C3_Witness ==
    /\ polled = "chunk"
    /\ last = "line"
    /\ chunk = << LF >>
    /\ received = << CR, CR, LF >>
    /\ out = << Line(<< CR >>) >>

\* C4: a pull that finds the source exhausted while the buffer holds a
\* non-empty fragment without LF (one that decodes) emits exactly that
\* fragment as one line and clears the buffer; with the buffer absent and the
\* source exhausted the pull signals completion and emits nothing.
C4_FlushTail ==
    [][ /\ (polled' = "end" /\ buffered # None /\ buffered[1] # << >>
               /\ FirstLF(buffered[1]) = 0
               /\ FromUtf8(buffered[1]).tag = "line")
            => (out' = Append(out, Line(buffered[1]))
                  /\ buffered' = None /\ last' = "line")
        /\ (polled' = "end" /\ buffered = None /\ done)
            => (out' = out /\ last' = "end")
      ]_vars

\* C5 (as stated): a pull that finds the source exhausted while the buffer is
\* absent or present with zero bytes emits nothing and signals completion.
C5_EmptyTail ==
    [][ (polled' = "end" /\ BufBytes(buffered) = << >>)
            => (out' = out /\ last' = "end") ]_vars

\* C5 (amended): a pull that finds the source exhausted while the buffer is
\* absent emits nothing and signals completion; while the buffer is present
\* with zero bytes it emits one empty line and clears the buffer.
C5_AbsentTail ==
    [][ /\ (polled' = "end" /\ buffered = None)
            => (out' = out /\ last' = "end" /\ buffered' = None)
        /\ (polled' = "end" /\ buffered = Some(<< >>))
            => (out' = Append(out, Line(<< >>)) /\ last' = "line"
                  /\ buffered' = None)
      ]_vars

\* the single empty chunk: one empty line, then completion
C5_Witness ==
    /\ last = "end"
    /\ nchunks = 1
    /\ received = << >>
    /\ out = << Line(<< >>) >>
    /\ buffered = None

\* C6: when a splitter whose last received byte is LF has signalled
\* completion, the last thing it returned is an empty line, which came after
\* the line of every LF: it extracted one line more than it received LFs.
C6_TrailingEmptyLine ==
    (last = "end" /\ Len(received) > 0 /\ received[Len(received)] = LF)
        => /\ Len(out) >= 2
           /\ out[Len(out)] = Line(<< >>)
           /\ Len(Extracted(out)) = NumLF(received) + 1

C6_Witness ==
    /\ last = "end"
    /\ received = << 97, CR, LF >>
    /\ out = << Line(<< 97 >>), Line(<< >>) >>

\* C7: after a pull has returned an error, no later pull returns a line
\* (stated for the decode errors, the ones the splitter raises itself).
C7_ErrorTerminal ==
    \A i \in 1..Len(out) : \A j \in (i+1)..Len(out) :
        out[i].tag = "decode_err" => out[j].tag # "line"

\* C8: a pull adds at most one result; a pull that gets a chunk completing
\* one or more lines returns the first of them (without the CR before its
\* LF) and leaves in the buffer exactly the bytes after that line's LF.
C8_OneItemPerPull ==
    [][ /\ Len(out') <= Len(out) + 1
        /\ nchunks' = nchunks + 1 =>
            LET b == BufBytes(buffered) \o chunk'
                ps == SplitLF(b)
            IN  Len(ps) >= 2 =>
                  /\ out' = Append(out, FromUtf8(StripOneCR(ps[1])))
                  /\ buffered' = Some(SubSeq(b, Len(ps[1]) + 2, Len(b)))
      ]_vars

\* one chunk completed two lines: one was returned, the other is buffered
C8_Witness ==
    /\ polled = "chunk"
    /\ last = "line"
    /\ chunk = << 97, LF, CR, LF >>
    /\ out = << Line(<< 97 >>) >>
    /\ buffered = Some(<< CR, LF >>)

\* C9: once a pull has signalled completion the buffer is absent, and every
\* later pull signals completion again and returns nothing else.
C9_CompletionTerminal ==
    /\ [](last = "end" => buffered = None)
    /\ [][ last = "end" => (last' = "end" /\ out' = out /\ buffered' = None) ]_vars

\* completion was signalled by the pull that exhausted the source (nothing
\* was ever emitted) and again by a later pull, answered by the fuse
C9_Witness ==
    /\ last = "end"
    /\ polled = "end"
    /\ out = << >>
    /\ buffered = None
    /\ ~innerPolled

\* C10: once the inner source has signalled exhaustion, no pull reaches it.
C10_FuseLatch ==
    [][ srcEnded => ~innerPolled' ]_vars

\* a pull after exhaustion flushed a line without reaching the inner source
C10_Witness ==
    /\ srcEnded
    /\ ~innerPolled
    /\ last = "line"
    /\ Len(out) >= 2

\* C11 (as stated): while the buffer holds a complete line, every pull
\* returns the first buffered line, whatever the inner source reports.
C11_SurfaceAlways ==
    [][ NumLF(BufBytes(buffered)) > 0
            => out' = Append(out, FromUtf8(StripOneCR(SplitLF(BufBytes(buffered))[1])))
      ]_vars

\* C11 (amended): while the buffer holds a complete line, every pull in
\* which the inner source reports a new chunk or exhaustion returns the first
\* buffered line, ahead of the bytes of the new chunk; a pull in which it
\* reports not ready or an error returns that and leaves the buffer as it is.
C11_SurfaceOnData ==
    [][ NumLF(BufBytes(buffered)) > 0 =>
          /\ polled' \in {"chunk", "end"} =>
                /\ out' = Append(out, FromUtf8(StripOneCR(SplitLF(BufBytes(buffered))[1])))
                /\ BufBytes(buffered') =
                     SubSeq(BufBytes(buffered), Len(SplitLF(BufBytes(buffered))[1]) + 2,
                            Len(BufBytes(buffered)))
                       \o (IF polled' = "chunk" THEN chunk' ELSE << >>)
          /\ polled' \in {"not_ready", "err"} =>
                /\ buffered' = buffered
                /\ last' = polled'
                /\ Extracted(out') = Extracted(out)
      ]_vars

\* a chunk completed two lines; the second surfaced in a pull that got
\* another chunk, whose bytes stay behind it in the buffer
C11_Witness ==
    /\ polled = "chunk"
    /\ nchunks = 2
    /\ received = << 97, LF, LF, 97 >>
    /\ chunk = << 97 >>
    /\ out = << Line(<< 97 >>), Line(<< >>) >>
    /\ buffered = Some(<< 97 >>)

\* C12 (as stated): after every pull the buffer contains no LF byte.
C12_NoLineInBuffer ==
    NumLF(BufBytes(buffered)) = 0

\* C12 (amended): after every pull the LF bytes in the buffer are those of
\* the complete lines received and not yet extracted, as many as LFs received
\* less lines extracted; there is none after a pull that appended a chunk and
\* returned not-ready, and none after completion.
C12_PendingLines ==
    /\ buffered # None
          => NumLF(buffered[1]) = NumLF(received) - Len(Extracted(out))
    /\ ((polled = "chunk" /\ last = "not_ready") \/ last = "end")
          => NumLF(BufBytes(buffered)) = 0

\* one chunk completed two lines: the second is still in the buffer
C12_Witness ==
    /\ last = "line"
    /\ nchunks = 1
    /\ received = << 97, LF, LF, 97 >>
    /\ out = << Line(<< 97 >>) >>
    /\ buffered = Some(<< LF, 97 >>)

\* the bytes of s after its n-th LF
RECURSIVE AfterLFs(_, _)
AfterLFs(s, n) ==
    IF n = 0 THEN s
    ELSE AfterLFs(SubSeq(s, Len(SplitLF(s)[1]) + 2, Len(s)), n - 1)

\* C13: between pulls, the bytes received are the raw bytes of the lines
\* extracted so far (decode failures included), in order, followed by the
\* buffer: the k-th extraction is the k-th piece of the received bytes less
\* the CR that ended it, each LF-terminated piece was followed by its LF, and
\* what follows the extracted pieces is exactly the buffer (nothing, once the
\* unterminated tail has been flushed).
C13_ByteConservation ==
    LET ex == Extracted(out)
        n == Len(ex)
        m == NumLF(received)
        ps == SplitLF(received)
    IN  /\ n <= m + 1
        /\ \A k \in 1..n : ex[k].val = StripOneCR(ps[k])
        /\ n <= m => BufBytes(buffered) = AfterLFs(received, n)
        /\ n = m + 1 => buffered = None

\* a line that failed to decode and lost its CR, and a pending fragment
C13_Witness ==
    /\ received = << 255, CR, LF, 97 >>
    /\ nchunks = 2
    /\ out = << [tag |-> "decode_err", val |-> << 255 >>] >>
    /\ buffered = Some(<< 97 >>)

\* C14: a pull that finds the source exhausted while the buffer contains no
\* LF decodes and returns the whole buffer, byte for byte, a final CR
\* included, and clears the buffer.
C14_TailVerbatim ==
    [][ (polled' = "end" /\ buffered # None /\ NumLF(buffered[1]) = 0)
            => (out' = Append(out, FromUtf8(buffered[1])) /\ buffered' = None)
      ]_vars

\* C15: a task that polls again after not-ready only once the inner source
\* has notified it is never left waiting: whenever the splitter has returned
\* not-ready (and no error occurred), the inner source answered that pull
\* not-ready itself, so its notification is armed or already fired.
C15_NeverStranded ==
    (last = "not_ready" /\ NoErrors) => wake # "none"

\* C16: a pull whose extracted line fails to decode returns the error and
\* leaves the buffer in the state after the extraction (the bytes after the
\* line's LF, or absent after the end-of-stream flush); no piece of the
\* received bytes is extracted twice.
C16_DecodeErrorPostState ==
    /\ [](Len(Extracted(out)) <= NumLF(received) + 1)
    /\ [][ (Len(out') = Len(out) + 1 /\ out'[Len(out')].tag = "decode_err") =>
             LET b == BufBytes(buffered)
                        \o (IF nchunks' = nchunks + 1 THEN chunk' ELSE << >>)
             IN  /\ last' = "err"
                 /\ out' = Append(out, [tag |-> "decode_err",
                                        val |-> StripOneCR(SplitLF(b)[1])])
                 /\ buffered' = IF NumLF(b) > 0
                                THEN Some(SubSeq(b, Len(SplitLF(b)[1]) + 2, Len(b)))
                                ELSE None
         ]_vars

\* the line 0xFF failed to decode; the bytes after its LF are the buffer
C16_Witness ==
    /\ last = "err"
    /\ nchunks = 1
    /\ received = << 255, LF, 97, LF >>
    /\ out = << [tag |-> "decode_err", val |-> << 255 >>] >>
    /\ buffered = Some(<< 97, LF >>)

\* C17: a pull that gets a chunk after which the buffer contains no LF
\* returns not-ready, returns no item or error, and leaves in the buffer the
\* earlier buffer followed by the chunk, a final CR included.
C17_ChunkWithoutLine ==
    [][ (nchunks' = nchunks + 1 /\ NumLF(BufBytes(buffered) \o chunk') = 0)
            => /\ last' = "not_ready"
               /\ out' = out
               /\ buffered' = Some(BufBytes(buffered) \o chunk')
      ]_vars

\* the second chunk ended in CR and completed no line
C17_Witness ==
    /\ polled = "chunk"
    /\ last = "not_ready"
    /\ nchunks = 2
    /\ chunk = << CR >>
    /\ buffered = Some(<< 97, CR >>)
    /\ out = << >>

\* C18: a pull in which the inner source reports not-ready returns
\* not-ready, one in which it fails returns that error; both leave the buffer
\* as it was and extract nothing.
C18_NoDataNoChange ==
    [][ /\ polled' = "not_ready"
            => (last' = "not_ready" /\ buffered' = buffered /\ out' = out)
        /\ polled' = "err"
            => (last' = "err" /\ buffered' = buffered /\ out' = Append(out, SrcErr))
      ]_vars

\* the source was not ready while a complete line was buffered: it stayed
C18_Witness ==
    /\ polled = "not_ready"
    /\ last = "not_ready"
    /\ received = << 97, LF, 97, LF >>
    /\ out = << Line(<< 97 >>) >>
    /\ buffered = Some(<< 97, LF >>)

\* what is pending in buffer b: nothing, or its bytes and the flush of them
Pending(b) == IF b = None THEN 0 ELSE Len(b[1]) + 1

\* C19: polled in a loop over a source that ends, the splitter eventually
\* signals completion unless an error occurs; once the source is exhausted
\* every pull that returns no error either returns a line and shrinks what is
\* pending, or signals completion: none returns not-ready.
C19_Termination ==
    /\ <>(last = "end" \/ ~NoErrors)
    /\ [][ (srcEnded /\ \A k \in 1..Len(out') : out'[k].tag = "line")
             => \/ last' = "end" /\ out' = out /\ buffered' = None
                \/ /\ last' = "line"
                   /\ Len(out') = Len(out) + 1
                   /\ Pending(buffered') < Pending(buffered)
         ]_vars

\* one chunk of two empty lines and a tail, drained after exhaustion
C19_Witness ==
    /\ last = "end"
    /\ nchunks = 1
    /\ received = << LF, LF, 97 >>
    /\ out = << Line(<< >>), Line(<< >>), Line(<< 97 >>) >>

\* C20: as long as the source has delivered no chunk the buffer is absent
\* and nothing has been extracted, and the pull that finds the source
\* exhausted then signals completion.
C20_NoChunks ==
    nchunks = 0 =>
        /\ buffered = None
        /\ Extracted(out) = << >>
        /\ polled = "end" => last = "end"

\* the first pull found the source exhausted
C20_Witness ==
    /\ nchunks = 0
    /\ polled = "end"
    /\ innerPolled
    /\ last = "end"
    /\ out = << >>
    /\ buffered = None

====
